---- MODULE Spec2Model ----
(***************************************************************************)
(* Model of src/src/05-objects-tasks.js: the Rectangle factory and the     *)
(* cssSelectorBuilder object (element, id, class, attr, pseudoClass,       *)
(* pseudoElement, combine, stringify).                                     *)
(*                                                                         *)
(* JavaScript objects live in a heap (a sequence of records, a reference   *)
(* is an index).  Reference 1 is the cssSelectorBuilder object itself.     *)
(* A JavaScript string is a sequence of one-character strings; a property  *)
(* is either undefined or a string.  Method calls run to completion, so    *)
(* one call is one step; call sites interleave between calls.              *)
(***************************************************************************)
EXTENDS Integers, Sequences, FiniteSets, TLC

\* ------------------------------------------------------------------ bounds
MaxHeap == 3          \* objects in the heap, the builder included
MaxDim == 5           \* rectangle sides range over -MaxDim..MaxDim
MaxCalls == 2         \* getArea() calls on one rectangle

MaxFields == 2        \* own fields of a record given to getJSON

Sites == {1, 2}        \* two independent call sites
Values == {<<>>, <<"a">>}
Combinators == {<<"+">>}
Dims == (0 - MaxDim)..MaxDim

Keys == {"radius", "getArea", "__proto__"}     \* field names of a record
Methods == {"getArea", "getLength"}            \* method names of a prototype

\* ------------------------------------------------------- JavaScript values
Undefined == [type |-> "undefined", str |-> <<>>]
String(s) == [type |-> "string", str |-> s]
\* ToBoolean: undefined and '' are falsy, every other string is truthy
Truthy(v) == v.type = "string" /\ v.str # <<>>

\* the characters of a property read as text: '' when it is undefined
Text(v) == IF v.type = "string" THEN v.str ELSE <<>>

Fields == {"el", "aidi", "cl", "att", "psc", "pse", "item"}

\* a plausible slip: the message with the word the grammar asks for
err1Than == "Element, id and pseudo-element should not occur more than one time inside the selector"

err1 == "Element, id and pseudo-element should not occur more then one time inside the selector"
err2 == "Selector parts should be arranged in the following order: element, id, class, attribute, pseudo-class, pseudo-element"

\* the object literal: err1, err2 and the methods are its own properties,
\* no fragment property exists yet (the methods are constant and not stored)
cssSelectorBuilder ==
  [err1 |-> err1, err2 |-> err2,
   el |-> Undefined, aidi |-> Undefined, cl |-> Undefined, att |-> Undefined,
   psc |-> Undefined, pse |-> Undefined, item |-> Undefined]

\* ------------------------------------------------------------ call results
Throw(h, msg) == [heap |-> h, threw |-> TRUE, error |-> msg, ref |-> 0]
Return(h, ref) == [heap |-> h, threw |-> FALSE, error |-> "", ref |-> ref]

\* a plausible slip: items aliases the receiver instead of copying it
SpreadAlias(h, this) == [heap |-> h, ref |-> this]

\* const items = { ...this }: a fresh object with the receiver's own properties
Spread(h, this) == [heap |-> Append(h, h[this]), ref |-> Len(h) + 1]

\* a plausible slip: the id is rendered before the element
stringifyIdFirst(h, this) ==
  IF Truthy(h[this].item) THEN h[this].item.str
  ELSE LET r0 == <<>>
           r1 == IF Truthy(h[this].aidi) THEN r0 \o h[this].aidi.str ELSE r0
           r2 == IF Truthy(h[this].el) THEN r1 \o h[this].el.str ELSE r1
           r3 == IF Truthy(h[this].cl) THEN r2 \o h[this].cl.str ELSE r2
           r4 == IF Truthy(h[this].att) THEN r3 \o h[this].att.str ELSE r3
           r5 == IF Truthy(h[this].psc) THEN r4 \o h[this].psc.str ELSE r4
           r6 == IF Truthy(h[this].pse) THEN r5 \o h[this].pse.str ELSE r5
       IN r6

\* a plausible slip: the combination text is followed by the fragments
stringifyItemThenParts(h, this) ==
  LET r0 == IF Truthy(h[this].item) THEN h[this].item.str ELSE <<>>
      r1 == IF Truthy(h[this].el) THEN r0 \o h[this].el.str ELSE r0
      r2 == IF Truthy(h[this].aidi) THEN r1 \o h[this].aidi.str ELSE r1
      r3 == IF Truthy(h[this].cl) THEN r2 \o h[this].cl.str ELSE r2
      r4 == IF Truthy(h[this].att) THEN r3 \o h[this].att.str ELSE r3
      r5 == IF Truthy(h[this].psc) THEN r4 \o h[this].psc.str ELSE r4
      r6 == IF Truthy(h[this].pse) THEN r5 \o h[this].pse.str ELSE r5
  IN r6

\* ------------------------------------------------------------------ render
stringify(h, this) ==
  IF Truthy(h[this].item) THEN h[this].item.str
  ELSE LET r0 == <<>>
           r1 == IF Truthy(h[this].el) THEN r0 \o h[this].el.str ELSE r0
           r2 == IF Truthy(h[this].aidi) THEN r1 \o h[this].aidi.str ELSE r1
           r3 == IF Truthy(h[this].cl) THEN r2 \o h[this].cl.str ELSE r2
           r4 == IF Truthy(h[this].att) THEN r3 \o h[this].att.str ELSE r3
           r5 == IF Truthy(h[this].psc) THEN r4 \o h[this].psc.str ELSE r4
           r6 == IF Truthy(h[this].pse) THEN r5 \o h[this].pse.str ELSE r5
       IN r6

\* --------------------------------------------------------- append operations
\* a plausible slip: element without the uniqueness check
elementNoDuplicateCheck(h, this, value) ==
  IF Truthy(h[this].aidi) THEN Throw(h, h[this].err2)
  ELSE LET s == Spread(h, this)
           items == s.ref
       IN IF ~Truthy(s.heap[items].el)
          THEN Return([s.heap EXCEPT ![items].el = String(value)], items)
          ELSE Return([s.heap EXCEPT ![items].el = String(@.str \o value)], items)

\* a plausible slip: the order check of element also looks at the class
elementChecksClass(h, this, value) ==
  IF Truthy(h[this].el) THEN Throw(h, h[this].err1)
  ELSE IF Truthy(h[this].aidi) \/ Truthy(h[this].cl) THEN Throw(h, h[this].err2)
  ELSE LET s == Spread(h, this)
           items == s.ref
       IN IF ~Truthy(s.heap[items].el)
          THEN Return([s.heap EXCEPT ![items].el = String(value)], items)
          ELSE Return([s.heap EXCEPT ![items].el = String(@.str \o value)], items)

element(h, this, value) ==
  IF Truthy(h[this].el) THEN Throw(h, h[this].err1)
  ELSE IF Truthy(h[this].aidi) THEN Throw(h, h[this].err2)
  ELSE LET s == Spread(h, this)
           items == s.ref
       IN IF ~Truthy(s.heap[items].el)
          THEN Return([s.heap EXCEPT ![items].el = String(value)], items)
          ELSE Return([s.heap EXCEPT ![items].el = String(@.str \o value)], items)

\* a plausible slip: the token is written to the receiver before the checks
idWritesBeforeCheck(h, this, value) ==
  LET w == [h EXCEPT ![this].aidi = String(Text(@) \o <<"#">> \o value)]
  IN IF Truthy(h[this].aidi) THEN Throw(w, h[this].err1)
     ELSE IF Truthy(h[this].cl) \/ Truthy(h[this].pse) THEN Throw(w, h[this].err2)
     ELSE LET s == Spread(h, this)
              items == s.ref
          IN Return([s.heap EXCEPT ![items].aidi = String(<<"#">> \o value)], items)

\* a plausible slip: the order check of id reads psc where the code reads pse
idChecksPseudoClass(h, this, value) ==
  IF Truthy(h[this].aidi) THEN Throw(h, h[this].err1)
  ELSE IF Truthy(h[this].cl) \/ Truthy(h[this].psc) THEN Throw(h, h[this].err2)
  ELSE LET s == Spread(h, this)
           items == s.ref
       IN IF ~Truthy(s.heap[items].aidi)
          THEN Return([s.heap EXCEPT ![items].aidi = String(<<"#">> \o value)], items)
          ELSE Return([s.heap EXCEPT ![items].aidi = String(@.str \o <<"#">> \o value)], items)

id(h, this, value) ==
  IF Truthy(h[this].aidi) THEN Throw(h, h[this].err1)
  ELSE IF Truthy(h[this].cl) \/ Truthy(h[this].pse) THEN Throw(h, h[this].err2)
  ELSE LET s == Spread(h, this)
           items == s.ref
       IN IF ~Truthy(s.heap[items].aidi)
          THEN Return([s.heap EXCEPT ![items].aidi = String(<<"#">> \o value)], items)
          ELSE Return([s.heap EXCEPT ![items].aidi = String(@.str \o <<"#">> \o value)], items)

\* a plausible slip: the new token is put in front of the existing ones
classPrepends(h, this, value) ==
  IF Truthy(h[this].att) THEN Throw(h, h[this].err2)
  ELSE LET s == Spread(h, this)
           items == s.ref
       IN IF ~Truthy(s.heap[items].cl)
          THEN Return([s.heap EXCEPT ![items].cl = String(<<".">> \o value)], items)
          ELSE Return([s.heap EXCEPT ![items].cl = String(<<".">> \o value \o @.str)], items)

\* a plausible slip: the token is written to the receiver, and the copy returned
classWritesThis(h, this, value) ==
  IF Truthy(h[this].att) THEN Throw(h, h[this].err2)
  ELSE LET w == IF ~Truthy(h[this].cl)
                THEN [h EXCEPT ![this].cl = String(<<".">> \o value)]
                ELSE [h EXCEPT ![this].cl = String(@.str \o <<".">> \o value)]
           s == Spread(w, this)
       IN Return(s.heap, s.ref)

class(h, this, value) ==
  IF Truthy(h[this].att) THEN Throw(h, h[this].err2)
  ELSE LET s == Spread(h, this)
           items == s.ref
       IN IF ~Truthy(s.heap[items].cl)
          THEN Return([s.heap EXCEPT ![items].cl = String(<<".">> \o value)], items)
          ELSE Return([s.heap EXCEPT ![items].cl = String(@.str \o <<".">> \o value)], items)

\* a plausible slip: a later attribute replaces the earlier ones
attrOverwrites(h, this, value) ==
  IF Truthy(h[this].psc) THEN Throw(h, h[this].err2)
  ELSE LET s == Spread(h, this)
           items == s.ref
       IN Return([s.heap EXCEPT ![items].att = String(<<"[">> \o value \o <<"]">>)], items)

\* a plausible slip: the order check of attr also looks at the pseudo-element
attrChecksPseudoElement(h, this, value) ==
  IF Truthy(h[this].psc) \/ Truthy(h[this].pse) THEN Throw(h, h[this].err2)
  ELSE LET s == Spread(h, this)
           items == s.ref
       IN IF ~Truthy(s.heap[items].att)
          THEN Return([s.heap EXCEPT ![items].att = String(<<"[">> \o value \o <<"]">>)], items)
          ELSE Return([s.heap EXCEPT ![items].att = String(@.str \o <<"[">> \o value \o <<"]">>)], items)

attr(h, this, value) ==
  IF Truthy(h[this].psc) THEN Throw(h, h[this].err2)
  ELSE LET s == Spread(h, this)
           items == s.ref
       IN IF ~Truthy(s.heap[items].att)
          THEN Return([s.heap EXCEPT ![items].att = String(<<"[">> \o value \o <<"]">>)], items)
          ELSE Return([s.heap EXCEPT ![items].att = String(@.str \o <<"[">> \o value \o <<"]">>)], items)

pseudoClass(h, this, value) ==
  IF Truthy(h[this].pse) THEN Throw(h, h[this].err2)
  ELSE LET s == Spread(h, this)
           items == s.ref
       IN IF ~Truthy(s.heap[items].psc)
          THEN Return([s.heap EXCEPT ![items].psc = String(<<":">> \o value)], items)
          ELSE Return([s.heap EXCEPT ![items].psc = String(@.str \o <<":">> \o value)], items)

\* a plausible slip: pseudoElement without the uniqueness check
pseudoElementNoDuplicateCheck(h, this, value) ==
  LET s == Spread(h, this)
      items == s.ref
  IN IF ~Truthy(s.heap[items].pse)
     THEN Return([s.heap EXCEPT ![items].pse = String(<<":", ":">> \o value)], items)
     ELSE Return([s.heap EXCEPT ![items].pse = String(@.str \o <<":", ":">> \o value)], items)

pseudoElement(h, this, value) ==
  IF Truthy(h[this].pse) THEN Throw(h, h[this].err1)
  ELSE LET s == Spread(h, this)
           items == s.ref
       IN IF ~Truthy(s.heap[items].pse)
          THEN Return([s.heap EXCEPT ![items].pse = String(<<":", ":">> \o value)], items)
          ELSE Return([s.heap EXCEPT ![items].pse = String(@.str \o <<":", ":">> \o value)], items)

\* a plausible slip: no spaces around the combinator
combineNoPadding(h, this, selector1, combinator, selector2) ==
  LET s == Spread(h, this)
      items == s.ref
      item == stringify(s.heap, selector1) \o combinator \o stringify(s.heap, selector2)
  IN IF ~Truthy(s.heap[items].item)
     THEN Return([s.heap EXCEPT ![items].item = String(item)], items)
     ELSE Return([s.heap EXCEPT ![items].item = String(@.str \o item)], items)

\* ----------------------------------------------------------------- combine
combine(h, this, selector1, combinator, selector2) ==
  LET s == Spread(h, this)
      items == s.ref
      item == stringify(s.heap, selector1) \o <<" ">> \o combinator \o <<" ">>
                \o stringify(s.heap, selector2)
  IN IF ~Truthy(s.heap[items].item)
     THEN Return([s.heap EXCEPT ![items].item = String(item)], items)
     ELSE Return([s.heap EXCEPT ![items].item = String(@.str \o item)], items)

\* a plausible slip: the sides are added
getAreaAdds(r) == r.env.width + r.env.height

\* --------------------------------------------------------------- Rectangle
\* getArea() { return width * height; }: the parameters captured by the closure
getArea(r) == r.env.width * r.env.height

\* return { width, height, getArea() {...} }
Rectangle(width, height) ==
  [width |-> width, height |-> height, env |-> [width |-> width, height |-> height]]

\* ------------------------------------------------------------------- codec
\* A field value is a number or a string; a method of a prototype is a function.
Num(n) == [t |-> "number", n |-> n, s |-> ""]
Str(x) == [t |-> "string", n |-> 0, s |-> x]
Fn(name) == [t |-> "function", n |-> 0, s |-> name]
NoValue == [t |-> "undefined", n |-> 0, s |-> ""]
FieldValues == {Num(1), Str("1")}

\* A plain object is the sequence of its own enumerable properties, in the
\* order they were created; OwnKeys are their names.
OwnKeys(own) == {own[i].key : i \in 1..Len(own)}
OwnValue(own, k) == own[CHOOSE i \in 1..Len(own) : own[i].key = k].value

\* the records of at most MaxFields fields, no name twice
RECURSIVE RecordsOf(_)
RecordsOf(n) ==
  IF n = 0 THEN {<<>>}
  ELSE LET shorter == RecordsOf(n - 1)
       IN shorter \cup
            {Append(r, [key |-> k, value |-> x]) :
               r \in {q \in shorter : Len(q) = n - 1}, k \in Keys, x \in FieldValues}
Records == {r \in RecordsOf(MaxFields) : Cardinality(OwnKeys(r)) = Len(r)}

\* the digits of a number, and the number of its digits
NumberText(n) == IF n = 0 THEN "0" ELSE "1"
TextNumber(x) == IF x = "0" THEN 0 ELSE 1

\* JSON.stringify of a primitive: a number as its digits, a string in quotes
ValueText(x) == IF x.t = "number" THEN <<NumberText(x.n)>> ELSE <<"\"", x.s, "\"">>

RECURSIVE MembersText(_)
MembersText(own) ==
  IF own = <<>> THEN <<>>
  ELSE <<"\"", Head(own).key, "\"", ":">> \o ValueText(Head(own).value)
         \o (IF Tail(own) = <<>> THEN <<>> ELSE <<",">> \o MembersText(Tail(own)))

\* JSON.stringify of a plain object: its own enumerable properties, in order
JSONstringify(own) == <<"{">> \o MembersText(own) \o <<"}">>

\* CreateDataProperty: a new own property, or a new value for an existing one
Define(own, k, x) ==
  IF k \in OwnKeys(own)
  THEN [i \in 1..Len(own) |-> IF own[i].key = k THEN [key |-> k, value |-> x] ELSE own[i]]
  ELSE Append(own, [key |-> k, value |-> x])

\* JSON.parse from position i of the text of an object, acc the properties so far
RECURSIVE ParseMembers(_, _, _)
ParseMembers(text, i, acc) ==
  IF text[i] = "}" THEN acc
  ELSE LET j == IF text[i] = "," THEN i + 1 ELSE i
           k == text[j + 1]
           v == j + 4
       IN IF text[v] = "\""
          THEN ParseMembers(text, v + 3, Define(acc, k, Str(text[v + 1])))
          ELSE ParseMembers(text, v + 1, Define(acc, k, Num(TextNumber(text[v]))))

JSONparse(text) == ParseMembers(text, 2, <<>>)

\* Object.create(proto): no own property, the methods of proto through the chain
ObjectCreate(proto) == [proto |-> proto, own |-> <<>>]

\* target[k] = x.  '__proto__' is the accessor of Object.prototype, whose setter
\* ignores a primitive; any other name becomes an own property, also when the
\* prototype has a method of that name
Set(target, k, x) ==
  IF k = "__proto__" THEN target
  ELSE [target EXCEPT !.own = Define(target.own, k, x)]

\* Object.assign(target, source): target[k] = source[k] for each own enumerable k
RECURSIVE ObjectAssign(_, _)
ObjectAssign(target, source) ==
  IF source = <<>> THEN target
  ELSE ObjectAssign(Set(target, Head(source).key, Head(source).value), Tail(source))

\* object[k]: the own property, else the method of the prototype
Get(object, k) ==
  IF k \in OwnKeys(object.own) THEN OwnValue(object.own, k)
  ELSE IF k \in object.proto THEN Fn(k)
  ELSE NoValue

getJSON(obj) == JSONstringify(obj)

fromJSON(proto, json) == ObjectAssign(ObjectCreate(proto), JSONparse(json))

\* ------------------------------------------------------------------- state
VARIABLES
  heap,    \* the objects: heap[1] is cssSelectorBuilder, the others are the items of a call
  cur,     \* cur[p]: the reference call site p holds (the receiver of its next call)
  exp,     \* exp[p]: the object site p's chain gives when it runs alone, on a heap of its own
  log,     \* log[p]: the successful calls of the lineage of cur[p], oldest first
  last,    \* the last call: who, what, on which receiver (and the successful calls
           \* that led to it, lineage), and how it ended on the shared heap and alone
  rects,   \* the rectangles made so far (at most one)
  area,    \* the values getArea() returned, oldest first
  args,    \* the arguments Rectangle was called with
  codec    \* the codec calls: the record encoded, its text, the prototype, the result

selVars == <<heap, cur, exp, log, last>>
rectVars == <<rects, area, args>>
codecVars == <<codec>>
vars == <<heap, cur, exp, log, last, rects, area, args, codec>>

NoCodec ==
  [pc |-> "start", obj |-> <<>>, json |-> <<>>, proto |-> {}, out |-> ObjectCreate({})]

AppendOps == {"element", "id", "class", "attr", "pseudoClass", "pseudoElement"}

NoCall ==
  [op |-> "none", site |-> 0, this |-> 0, value |-> <<>>, left |-> 0, right |-> 0,
   threw |-> FALSE, error |-> "", ref |-> 0, result |-> <<>>, lineage |-> <<>>,
   aloneThrew |-> FALSE, aloneError |-> ""]

\* an operand of a call: 0 is the cssSelectorBuilder object, p > 0 is what site p holds
Ref(o) == IF o = 0 THEN 1 ELSE cur[o]
Exp(o) == IF o = 0 THEN cssSelectorBuilder ELSE exp[o]
Log(o) == IF o = 0 THEN <<>> ELSE log[o]

Init ==
  /\ heap = <<cssSelectorBuilder>>
  /\ cur = [p \in Sites |-> 1]
  /\ exp = [p \in Sites |-> cssSelectorBuilder]
  /\ log = [p \in Sites |-> <<>>]
  /\ last = NoCall
  /\ rects = <<>>
  /\ area = <<>>
  /\ args = <<>>
  /\ codec = NoCodec

\* site p calls cur[p].<name>(v); r is the call on the shared heap, a the same
\* call on a heap that holds nothing but the site's own chain
Called(p, name, v, r, a) ==
  /\ heap' = r.heap
  /\ cur' = IF r.threw THEN cur ELSE [cur EXCEPT ![p] = r.ref]
  /\ exp' = IF a.threw THEN exp ELSE [exp EXCEPT ![p] = a.heap[a.ref]]
  /\ log' = IF r.threw THEN log
            ELSE [log EXCEPT ![p] = Append(@, [op |-> name, value |-> v])]
  /\ last' = [NoCall EXCEPT !.op = name, !.site = p, !.this = cur[p], !.value = v,
                            !.threw = r.threw, !.error = r.error, !.ref = r.ref,
                            !.lineage = log[p],
                            !.aloneThrew = a.threw, !.aloneError = a.error]
  /\ UNCHANGED <<rectVars, codecVars>>

ElementCall(p, v) ==
  /\ Len(heap) < MaxHeap
  /\ Called(p, "element", v, element(heap, cur[p], v), element(<<exp[p]>>, 1, v))

IdCall(p, v) ==
  /\ Len(heap) < MaxHeap
  /\ Called(p, "id", v, id(heap, cur[p], v), id(<<exp[p]>>, 1, v))

ClassCall(p, v) ==
  /\ Len(heap) < MaxHeap
  /\ Called(p, "class", v, class(heap, cur[p], v), class(<<exp[p]>>, 1, v))

AttrCall(p, v) ==
  /\ Len(heap) < MaxHeap
  /\ Called(p, "attr", v, attr(heap, cur[p], v), attr(<<exp[p]>>, 1, v))

PseudoClassCall(p, v) ==
  /\ Len(heap) < MaxHeap
  /\ Called(p, "pseudoClass", v, pseudoClass(heap, cur[p], v), pseudoClass(<<exp[p]>>, 1, v))

PseudoElementCall(p, v) ==
  /\ Len(heap) < MaxHeap
  /\ Called(p, "pseudoElement", v, pseudoElement(heap, cur[p], v),
            pseudoElement(<<exp[p]>>, 1, v))

\* site p calls t.combine(l, c, r) and keeps the result; t is the builder or its
\* own state, l its own state or the builder, r what any site holds or the builder
CombineCall(p, t, l, c, r) ==
  /\ Len(heap) < MaxHeap
  /\ LET res == combine(heap, Ref(t), Ref(l), c, Ref(r))
         alone == combine(<<Exp(t), Exp(l), Exp(r)>>, 1, 2, c, 3)
     IN /\ heap' = res.heap
        /\ cur' = IF res.threw THEN cur ELSE [cur EXCEPT ![p] = res.ref]
        /\ exp' = IF alone.threw THEN exp ELSE [exp EXCEPT ![p] = alone.heap[alone.ref]]
        /\ log' = IF res.threw THEN log
                  ELSE [log EXCEPT ![p] = Append(Log(t), [op |-> "combine", value |-> c])]
        /\ last' = [NoCall EXCEPT !.op = "combine", !.site = p, !.this = Ref(t), !.value = c,
                                  !.left = Ref(l), !.right = Ref(r),
                                  !.threw = res.threw, !.error = res.error, !.ref = res.ref,
                                  !.lineage = Log(t),
                                  !.aloneThrew = alone.threw, !.aloneError = alone.error]
  /\ UNCHANGED <<rectVars, codecVars>>

\* site p calls cur[p].stringify()
StringifyCall(p) ==
  /\ last' = [NoCall EXCEPT !.op = "stringify", !.site = p, !.this = cur[p],
                            !.result = stringify(heap, cur[p])]
  /\ UNCHANGED <<heap, cur, exp, log>>
  /\ UNCHANGED <<rectVars, codecVars>>

\* site q starts its next chain from o: from the builder, or from the state
\* another site holds (const base = ...; base.id('x'); base.class('y')); a chain
\* is started only while the bounded heap has room for a call of it
Share(q, o) ==
  /\ Len(heap) < MaxHeap
  /\ o # q
  /\ cur[q] # Ref(o)
  /\ cur' = [cur EXCEPT ![q] = Ref(o)]
  /\ exp' = [exp EXCEPT ![q] = Exp(o)]
  /\ log' = [log EXCEPT ![q] = Log(o)]
  /\ last' = [NoCall EXCEPT !.op = "share", !.site = q, !.this = Ref(o)]
  /\ UNCHANGED heap
  /\ UNCHANGED <<rectVars, codecVars>>

Next ==
  \/ \E p \in Sites, v \in Values : ElementCall(p, v)
  \/ \E p \in Sites, v \in Values : IdCall(p, v)
  \/ \E p \in Sites, v \in Values : ClassCall(p, v)
  \/ \E p \in Sites, v \in Values : AttrCall(p, v)
  \/ \E p \in Sites, v \in Values : PseudoClassCall(p, v)
  \/ \E p \in Sites, v \in Values : PseudoElementCall(p, v)
  \/ \E p \in Sites : \E t \in {0, p}, l \in {p}, r \in {0} \cup Sites,
        c \in Combinators : CombineCall(p, t, l, c, r)
  \/ \E p \in Sites : StringifyCall(p)
  \/ \E q \in Sites, o \in {0} \cup Sites : Share(q, o)

Spec == Init /\ [][Next]_vars

\* ------------------------------------------------ one chain, to its throw
\* One caller extends one chain.  A call that throws makes no object, so it is
\* taken on a full heap too: the chain is followed up to the call that ends it.
ChainElement(v) ==
  /\ Len(heap) < MaxHeap \/ element(heap, cur[1], v).threw
  /\ Called(1, "element", v, element(heap, cur[1], v), element(<<exp[1]>>, 1, v))

ChainId(v) ==
  /\ Len(heap) < MaxHeap \/ id(heap, cur[1], v).threw
  /\ Called(1, "id", v, id(heap, cur[1], v), id(<<exp[1]>>, 1, v))

ChainClass(v) ==
  /\ Len(heap) < MaxHeap \/ class(heap, cur[1], v).threw
  /\ Called(1, "class", v, class(heap, cur[1], v), class(<<exp[1]>>, 1, v))

ChainAttr(v) ==
  /\ Len(heap) < MaxHeap \/ attr(heap, cur[1], v).threw
  /\ Called(1, "attr", v, attr(heap, cur[1], v), attr(<<exp[1]>>, 1, v))

ChainPseudoClass(v) ==
  /\ Len(heap) < MaxHeap \/ pseudoClass(heap, cur[1], v).threw
  /\ Called(1, "pseudoClass", v, pseudoClass(heap, cur[1], v), pseudoClass(<<exp[1]>>, 1, v))

ChainPseudoElement(v) ==
  /\ Len(heap) < MaxHeap \/ pseudoElement(heap, cur[1], v).threw
  /\ Called(1, "pseudoElement", v, pseudoElement(heap, cur[1], v),
            pseudoElement(<<exp[1]>>, 1, v))

NextChain ==
  \/ \E v \in Values : ChainElement(v)
  \/ \E v \in Values : ChainId(v)
  \/ \E v \in Values : ChainClass(v)
  \/ \E v \in Values : ChainAttr(v)
  \/ \E v \in Values : ChainPseudoClass(v)
  \/ \E v \in Values : ChainPseudoElement(v)

SpecChain == Init /\ [][NextChain]_vars

\* ------------------------------------------------- the rectangle on its own
RectangleCall(w, h) ==
  /\ rects = <<>>
  /\ rects' = <<Rectangle(w, h)>>
  /\ args' = <<w, h>>
  /\ UNCHANGED area
  /\ UNCHANGED <<selVars, codecVars>>

GetAreaCall ==
  /\ rects # <<>>
  /\ Len(area) < MaxCalls
  /\ area' = Append(area, getArea(rects[1]))
  /\ UNCHANGED <<rects, args>>
  /\ UNCHANGED <<selVars, codecVars>>

NextRect ==
  \/ \E w \in Dims, h \in Dims : RectangleCall(w, h)
  \/ GetAreaCall

SpecRect == Init /\ [][NextRect]_vars

\* ---------------------------------------------------- the codec on its own
GetJSONCall(v) ==
  /\ codec.pc = "start"
  /\ codec' = [codec EXCEPT !.pc = "encoded", !.obj = v, !.json = getJSON(v)]
  /\ UNCHANGED <<selVars, rectVars>>

FromJSONCall(proto) ==
  /\ codec.pc = "encoded"
  /\ codec' = [codec EXCEPT !.pc = "decoded", !.proto = proto,
                            !.out = fromJSON(proto, codec.json)]
  /\ UNCHANGED <<selVars, rectVars>>

NextCodec ==
  \/ \E v \in Records : GetJSONCall(v)
  \/ \E proto \in SUBSET Methods : FromJSONCall(proto)

SpecCodec == Init /\ [][NextCodec]_vars

\* ------------------------------------------------------ reading a state
Present(v) == v.type = "string"

FieldOf(op) ==
  CASE op = "element" -> "el"
    [] op = "id" -> "aidi"
    [] op = "class" -> "cl"
    [] op = "attr" -> "att"
    [] op = "pseudoClass" -> "psc"
    [] op = "pseudoElement" -> "pse"
    [] OTHER -> "item"

\* place of a kind in element, id, class, attribute, pseudo-class, pseudo-element
Rank(op) ==
  CASE op = "element" -> 1
    [] op = "id" -> 2
    [] op = "class" -> 3
    [] op = "attr" -> 4
    [] op = "pseudoClass" -> 5
    [] OTHER -> 6

\* the successful calls of kind op in a lineage
CallsOf(lineage, op) == {i \in 1..Len(lineage) : lineage[i].op = op}

\* C1: once element (id, pseudoElement) has succeeded in a lineage, a later call of
\* the same kind on a descendant state fails with the duplicate-part error, for
\* every string value, the empty string included.
C1_Uniqueness ==
  (last.op \in {"element", "id", "pseudoElement"} /\ CallsOf(last.lineage, last.op) # {})
    => (last.threw /\ last.error = err1)

\* C2: appending a fragment of kind K to a state that holds a fragment of a kind
\* later than K in the canonical order fails with the out-of-order error.
C2_OrderRule ==
  (last.op \in AppendOps
     /\ \E k \in AppendOps : Rank(k) > Rank(last.op) /\ Present(heap[last.this][FieldOf(k)]))
    => (last.threw /\ last.error = err2)

\* C3: every append and combine returns a new object and leaves every object that
\* existed before it unchanged (its receiver and operands among them); the new
\* object is the receiver's copy with one property set; the builder stays empty.
C3_NonDestructive ==
  [][ /\ Len(heap') >= Len(heap)
      /\ \A i \in 1..Len(heap) : heap'[i] = heap[i]
      /\ heap'[1] = cssSelectorBuilder
      /\ (last'.op \in AppendOps \cup {"combine"} /\ ~last'.threw)
           => /\ last'.ref = Len(heap) + 1
              /\ Len(heap') = Len(heap) + 1
              /\ cur'[last'.site] = last'.ref
              /\ \A f \in Fields \ {FieldOf(last'.op)} :
                   heap'[last'.ref][f] = heap[last'.this][f]
              /\ Present(heap'[last'.ref][FieldOf(last'.op)]) ]_vars

\* two sites derived an id and a class separately from the same base, the builder
C3_Witness ==
  /\ cur[1] # cur[2]
  /\ Len(log[1]) = 1 /\ log[1][1].op = "id"
  /\ Len(log[2]) = 1 /\ log[2][1].op = "class"
  /\ Present(heap[cur[1]].aidi) /\ ~Present(heap[cur[1]].cl)
  /\ Present(heap[cur[2]].cl) /\ ~Present(heap[cur[2]].aidi)

\* the fragments that exist, in the canonical order, with nothing between them
Canonical(o) ==
  Text(o.el) \o Text(o.aidi) \o Text(o.cl) \o Text(o.att) \o Text(o.psc) \o Text(o.pse)

\* C4: stringify on a state without a combination text returns the fragments that
\* are present concatenated in the canonical order ('' for the empty state), and
\* the call changes no object.
C4_Stringify ==
  [][ last'.op = "stringify"
        => /\ heap' = heap
           /\ cur' = cur
           /\ ~Present(heap[last'.this].item)
                => last'.result = Canonical(heap[last'.this]) ]_vars

C4_Witness ==
  /\ last.op = "stringify"
  /\ ~Present(heap[last.this].item)
  /\ Present(heap[last.this].el) /\ Present(heap[last.this].aidi)
  /\ last.result = <<"a", "#", "a">>

\* C5: combine called on the builder never fails, and its result renders as
\* left.stringify() + ' ' + combinator + ' ' + right.stringify(), nested or not.
C5_Combine ==
  [][ (last'.op = "combine" /\ last'.this = 1)
        => /\ ~last'.threw
           /\ stringify(heap', last'.ref)
                = stringify(heap, last'.left) \o <<" ">> \o last'.value \o <<" ">>
                    \o stringify(heap, last'.right) ]_vars

\* a nested combine on the builder: the left operand is itself a combined state
C5_Witness ==
  /\ last.op = "combine" /\ last.this = 1 /\ ~last.threw
  /\ Present(heap[last.left].item)
  /\ stringify(heap, last.ref) = <<" ", "+", " ", " ", "+", " ">>

\* C6: a successful append on a state that has a combination text gives a state
\* with the same combination text, and stringify returns exactly that text.
C6_CombinedFrozen ==
  [][ (last'.op \in AppendOps /\ ~last'.threw /\ Present(heap[last'.this].item))
        => /\ heap'[last'.ref].item = heap[last'.this].item
           /\ stringify(heap', last'.ref) = heap[last'.this].item.str
           /\ stringify(heap', last'.ref) = stringify(heap, last'.this) ]_vars

C6_Witness ==
  /\ last.op = "class" /\ ~last.threw
  /\ Present(heap[last.this].item)
  /\ heap[last.ref].cl = String(<<".", "a">>)
  /\ stringify(heap, last.ref) = <<" ", "+", " ">>

\* C7: only an append call throws; a call that throws returns no state and
\* changes no object and no reference, so the receiver renders and behaves as
\* before; stringify and combine never throw.
C7_ErrorsNoEffect ==
  [][ /\ last'.threw
        => /\ last'.op \in AppendOps
           /\ last'.error \in {err1, err2}
           /\ last'.ref = 0
           /\ heap' = heap
           /\ cur' = cur
           /\ stringify(heap', last'.this) = stringify(heap, last'.this)
      /\ last'.op \in {"stringify", "combine"} => ~last'.threw ]_vars

C7_Witness ==
  /\ last.threw /\ last.op = "id" /\ last.error = err1
  /\ heap[last.this].aidi = String(<<"#", "a">>)

\* the marked token of a call
Token(op, v) ==
  CASE op = "element" -> v
    [] op = "id" -> <<"#">> \o v
    [] op = "class" -> <<".">> \o v
    [] op = "attr" -> <<"[">> \o v \o <<"]">>
    [] op = "pseudoClass" -> <<":">> \o v
    [] OTHER -> <<":", ":">> \o v

\* C8: a successful class, attr or pseudoClass call appends its marked token to
\* the end of that kind's text, and none of the three ever fails as a duplicate;
\* a successful id gives '#v', pseudoElement '::v', element v without a marker.
C8_AppendTokens ==
  [][ /\ (last'.op \in {"class", "attr", "pseudoClass"} /\ ~last'.threw)
         => heap'[last'.ref][FieldOf(last'.op)]
              = String(Text(heap[last'.this][FieldOf(last'.op)]) \o Token(last'.op, last'.value))
      /\ (last'.op \in {"element", "id", "pseudoElement"} /\ ~last'.threw)
         => heap'[last'.ref][FieldOf(last'.op)] = String(Token(last'.op, last'.value))
      /\ (last'.op \in {"class", "attr", "pseudoClass"} /\ last'.threw)
         => last'.error # err1 ]_vars

\* a second class on the same chain: '.a' then '' renders '.a.'
C8_Witness ==
  /\ last.op = "class" /\ ~last.threw
  /\ heap[last.this].cl = String(<<".", "a">>)
  /\ last.value = <<>>
  /\ stringify(heap, last.ref) = <<".", "a", ".">>

\* C9: whatever the interleaving, each call site holds the object its chain
\* gives when run alone, and its last call ended as it does alone.
C9_ConcurrentUse ==
  /\ \A p \in Sites : heap[cur[p]] = exp[p]
  /\ last.threw = last.aloneThrew
  /\ last.error = last.aloneError

\* both sites have appended, interleaved, from the builder they share
C9_Witness ==
  /\ Len(log[1]) = 1 /\ Len(log[2]) = 1
  /\ cur[1] = 3 /\ cur[2] = 2
  /\ last.op = "id" /\ last.site = 1 /\ ~last.threw

\* C10: the record has width = w and height = h, and every getArea() gave w*h.
C10_RectangleArea ==
  rects # <<>>
    => /\ rects[1].width = args[1]
       /\ rects[1].height = args[2]
       /\ \A i \in 1..Len(area) : area[i] = args[1] * args[2]

C10_Witness ==
  /\ rects # <<>>
  /\ args = <<0 - 3, 4>>
  /\ area = <<0 - 12, 0 - 12>>

\* the receiver of the last call
Receiver == heap[last.this]

\* C12 as claimed: on a state with no id, id fails, with the out-of-order error,
\* exactly when a class or a pseudo-class is set.
C12_IdOrderAsClaimed ==
  (last.op = "id" /\ ~Present(Receiver.aidi))
    => /\ last.threw <=> (Present(Receiver.cl) \/ Present(Receiver.psc))
       /\ last.threw => last.error = err2

\* C12 amended: on a state with no id, id fails, with the out-of-order error,
\* exactly when a class or a pseudo-element is set; an attribute or a pseudo-class
\* does not make it fail.
C12_IdOrder ==
  (last.op = "id" /\ ~Present(Receiver.aidi))
    => /\ last.threw <=> (Present(Receiver.cl) \/ Present(Receiver.pse))
       /\ last.threw => last.error = err2

\* id thrown out of order by a pseudo-element alone
C12_Witness ==
  /\ last.op = "id" /\ last.threw /\ last.error = err2
  /\ Present(Receiver.pse) /\ ~Present(Receiver.cl) /\ ~Present(Receiver.aidi)

\* C13: on a state with no element, element fails, with the out-of-order error,
\* exactly when an id is set; class, attribute, pseudo-class and pseudo-element do
\* not make it fail.
C13_ElementOrder ==
  (last.op = "element" /\ ~Present(Receiver.el))
    => /\ last.threw <=> Present(Receiver.aidi)
       /\ last.threw => last.error = err2

\* element succeeded on a state that holds a class only
C13_Witness ==
  /\ last.op = "element" /\ ~last.threw
  /\ Present(Receiver.cl) /\ ~Present(Receiver.el) /\ ~Present(Receiver.aidi)
  /\ heap[last.ref].el = String(<<"a">>)

\* C14: class fails exactly when an attribute is set, attr exactly when a
\* pseudo-class is set, pseudoClass exactly when a pseudo-element is set, each
\* with the out-of-order error; in every other state the call succeeds.
C14_NextKindOnly ==
  /\ last.op = "class" => (last.threw <=> Present(Receiver.att))
  /\ last.op = "attr" => (last.threw <=> Present(Receiver.psc))
  /\ last.op = "pseudoClass" => (last.threw <=> Present(Receiver.pse))
  /\ (last.op \in {"class", "attr", "pseudoClass"} /\ last.threw) => last.error = err2

\* attr succeeded after a pseudo-element: only the pseudo-class is looked at
C14_Witness ==
  /\ last.op = "attr" /\ ~last.threw
  /\ Present(Receiver.pse) /\ ~Present(Receiver.psc)

\* C15: a combine called on a state that has a combination text overwrites it:
\* the result renders as left.stringify() + ' ' + combinator + ' ' +
\* right.stringify() of this combine, with nothing of the earlier text.
C15_CombineOverwrites ==
  (last.op = "combine" /\ ~last.threw /\ Present(Receiver.item))
    => stringify(heap, last.ref)
         = stringify(heap, last.left) \o <<" ">> \o last.value \o <<" ">>
             \o stringify(heap, last.right)

\* no fragment but the element
OnlyElement(o) ==
  /\ Present(o.el)
  /\ \A f \in {"aidi", "cl", "att", "psc", "pse"} : ~Present(o[f])

\* C16 as claimed: a second element on a state that has an element and no other
\* fragment does not fail, and the element part is the two names concatenated.
C16_SecondElementAsClaimed ==
  (last.op = "element" /\ OnlyElement(Receiver))
    => /\ ~last.threw
       /\ heap[last.ref].el = String(Receiver.el.str \o last.value)

\* C16 amended: a second element on a state that has a non-empty element and no
\* other fragment fails with the duplicate-part error; only when the element
\* part is the empty string does the call succeed, and the element part is then
\* the second name (the two names concatenated).
C16_SecondElement ==
  (last.op = "element" /\ OnlyElement(Receiver))
    => IF Receiver.el.str # <<>>
       THEN last.threw /\ last.error = err1 /\ last.ref = 0
       ELSE ~last.threw /\ heap[last.ref].el = String(Receiver.el.str \o last.value)

C16_Witness ==
  /\ last.op = "element" /\ last.threw /\ last.error = err1
  /\ OnlyElement(Receiver) /\ Receiver.el = String(<<"a">>)
  /\ last.value = <<"a">>

\* the last call found the part it appends already there
DuplicateCause ==
  /\ last.op \in {"element", "id", "pseudoElement"}
  /\ Truthy(Receiver[FieldOf(last.op)])

\* C17 as claimed: the duplicate-part error carries "... more than one time ..."
\* and the out-of-order error "Selector parts should be arranged ...".
C17_MessagesAsClaimed ==
  last.threw
    => IF DuplicateCause
       THEN last.error = "Element, id and pseudo-element should not occur more than one time inside the selector"
       ELSE last.error = "Selector parts should be arranged in the following order: element, id, class, attribute, pseudo-class, pseudo-element"

\* C17 amended: the duplicate-part error carries "... more then one time ..."
\* (the text of err1), the out-of-order error the text of err2, and the two
\* texts differ.
C17_Messages ==
  /\ last.threw
       => IF DuplicateCause
          THEN last.error = "Element, id and pseudo-element should not occur more then one time inside the selector"
          ELSE last.error = "Selector parts should be arranged in the following order: element, id, class, attribute, pseudo-class, pseudo-element"
  /\ \A i \in 1..Len(heap) : heap[i].err1 # heap[i].err2

C17_Witness ==
  /\ last.threw /\ DuplicateCause /\ last.op = "pseudoElement"
  /\ last.error = err1

\* the value of the most recent call of kind op in a lineage that has one
LastValue(lineage, op) ==
  lineage[CHOOSE i \in CallsOf(lineage, op) : \A j \in CallsOf(lineage, op) : j <= i].value

\* C19: in every state a call site holds, the element part is the value of the
\* most recent successful element call, the id part is the one '#v' token and the
\* pseudo-element part the one '::v' token of the only such call; element, id and
\* pseudoElement never succeed on a receiver whose part is truthy, so their
\* concatenating branches are never taken.
C19_SingleToken ==
  /\ \A p \in Sites :
       /\ heap[cur[p]].el = IF CallsOf(log[p], "element") = {} THEN Undefined
                            ELSE String(LastValue(log[p], "element"))
       /\ Cardinality(CallsOf(log[p], "id")) <= 1
       /\ heap[cur[p]].aidi = IF CallsOf(log[p], "id") = {} THEN Undefined
                              ELSE String(<<"#">> \o LastValue(log[p], "id"))
       /\ Cardinality(CallsOf(log[p], "pseudoElement")) <= 1
       /\ heap[cur[p]].pse = IF CallsOf(log[p], "pseudoElement") = {} THEN Undefined
                             ELSE String(<<":", ":">> \o LastValue(log[p], "pseudoElement"))
  /\ (last.op \in {"element", "id", "pseudoElement"} /\ ~last.threw)
       => ~Truthy(Receiver[FieldOf(last.op)])

\* two successful element calls in one lineage: the part is the later value
C19_Witness ==
  /\ Cardinality(CallsOf(log[1], "element")) = 2
  /\ log[1][2].value = <<"a">>
  /\ heap[cur[1]].el = String(<<"a">>)

\* the marked tokens of the calls of kind op in a lineage, in the order of the calls
RECURSIVE TokensOf(_, _)
TokensOf(lineage, op) ==
  IF lineage = <<>> THEN <<>>
  ELSE (IF Head(lineage).op = op THEN Token(op, Head(lineage).value) ELSE <<>>)
         \o TokensOf(Tail(lineage), op)

\* the values of the calls of kind op in a lineage, in the order of the calls
ValuesOf(lineage, op) ==
  [i \in 1..Cardinality(CallsOf(lineage, op)) |->
     lineage[CHOOSE j \in CallsOf(lineage, op) :
               Cardinality({k \in CallsOf(lineage, op) : k <= j}) = i].value]

AppendsOnly(lineage) == \A i \in 1..Len(lineage) : lineage[i].op \in AppendOps

\* C20: the render of a state built by appends alone is fixed by the sequence of
\* values of each kind, whatever the order of the calls across kinds: it is the
\* tokens of each kind, kind by kind in the canonical order; so two sites whose
\* lineages give every kind the same values render the same text.
C20_OrderIndependent ==
  /\ \A p \in Sites :
       AppendsOnly(log[p])
         => stringify(heap, cur[p])
              = TokensOf(log[p], "element") \o TokensOf(log[p], "id")
                  \o TokensOf(log[p], "class") \o TokensOf(log[p], "attr")
                  \o TokensOf(log[p], "pseudoClass") \o TokensOf(log[p], "pseudoElement")
  /\ \A p \in Sites, q \in Sites :
       (AppendsOnly(log[p]) /\ AppendsOnly(log[q])
          /\ \A k \in AppendOps : ValuesOf(log[p], k) = ValuesOf(log[q], k))
         => stringify(heap, cur[p]) = stringify(heap, cur[q])

\* class then element, out of the canonical order, renders 'a.a'
C20_Witness ==
  /\ Len(log[1]) = 2
  /\ log[1][1] = [op |-> "class", value |-> <<"a">>]
  /\ log[1][2] = [op |-> "element", value |-> <<"a">>]
  /\ stringify(heap, cur[1]) = <<"a", ".", "a">>

\* C18: when an append breaks both rules at once (element on a state that has
\* an element and an id; id on a state that has an id and a class or a
\* pseudo-element), the duplicate-part error is raised, never the out-of-order one.
C18_Precedence ==
  (\/ last.op = "element" /\ Present(Receiver.el) /\ Present(Receiver.aidi)
   \/ last.op = "id" /\ Present(Receiver.aidi)
        /\ (Present(Receiver.cl) \/ Present(Receiver.pse)))
    => (last.threw /\ last.error = err1)

\* the own fields of the decoded value are the fields of the record encoded
SameFields(own, obj) ==
  /\ OwnKeys(own) = OwnKeys(obj)
  /\ \A k \in OwnKeys(obj) : OwnValue(own, k) = OwnValue(obj, k)

\* the decoded value answers every method name of the prototype with the method
ExposesMethods(object, proto) == \A m \in proto : Get(object, m) = Fn(m)

\* C11 as claimed: for every record v and every capability set caps,
\* decode(caps, encode(v)) has own fields equal to v's and exposes the methods
\* of caps.
C11_RoundTripAsClaimed ==
  codec.pc = "decoded"
    => /\ SameFields(codec.out.own, codec.obj)
       /\ ExposesMethods(codec.out, codec.proto)

\* What the code does give (C11 restricted): the same, for every record v
\* none of whose fields is named '__proto__' or like a method of caps.
C11_RoundTripDisjoint ==
  (codec.pc = "decoded"
     /\ "__proto__" \notin OwnKeys(codec.obj)
     /\ OwnKeys(codec.obj) \cap codec.proto = {})
    => /\ SameFields(codec.out.own, codec.obj)
       /\ ExposesMethods(codec.out, codec.proto)
       /\ codec.out.proto = codec.proto

\* {radius: '1'} encoded and decoded with a prototype of two methods
C11_Witness ==
  /\ codec.pc = "decoded"
  /\ codec.obj = <<[key |-> "radius", value |-> Str("1")]>>
  /\ codec.json = <<"{", "\"", "radius", "\"", ":", "\"", "1", "\"", "}">>
  /\ codec.proto = {"getArea", "getLength"}
  /\ Get(codec.out, "radius") = Str("1")
  /\ Get(codec.out, "getArea") = Fn("getArea")

====
